---- MODULE Spec2Model ----
(***************************************************************************)
(* The Inbox page (src/src/pages/Inbox.tsx, second component, lines        *)
(* 594-1442): conversation list, selected conversation, optimistic send    *)
(* with rollback, and the 2-second refresh loop, together with the         *)
(* backend and the credential store it talks to.                           *)
(*                                                                         *)
(* React specifics kept by the model:                                      *)
(*  - an async handler keeps the values of the render it was created in    *)
(*    (selectedConversation, isRefreshing, refreshMessages); every request *)
(*    in flight therefore carries the closure it will continue with;       *)
(*  - the polling effect (lines 1011-1021) re-runs after every change of   *)
(*    selectedConversation, userData or isRefreshing, so the interval      *)
(*    callback always holds the values of the latest render;               *)
(*  - functional updates (setX(prev => ...)) read the current state.       *)
(***************************************************************************)
EXTENDS Integers, Sequences, FiniteSets, TLC

\* ------------------------------------------------------------- bounds
MaxLen == 2         \* length of the texts the validation is tried on
MaxSends == 2       \* sends that pass the preconditions
MaxPolls == 2       \* refreshMessages invocations that issue a request
MaxReplies == 1     \* messages the assistant writes during the session

MaxConvs == 2       \* conversations stored when the page is opened
MaxMsgs == 1        \* messages of a stored conversation

\* ------------------------------------------------------------- values
Null == [null |-> TRUE]
NoId == <<"none", 0>>

\* _id of a conversation: `temp-${Date.now()}` or a server ObjectId
TempId(n) == <<"temp", n>>
SrvId(n) == <<"srv", n>>
\* String.startsWith("temp-")
StartsWithTemp(id) == id[1] = "temp"

\* text of the input field, as a sequence of characters
Texts == { <<>>, <<" ", "h">> }

RECURSIVE TrimStart(_)
TrimStart(s) ==
  IF s # <<>> /\ Head(s) = " " THEN TrimStart(Tail(s)) ELSE s

RECURSIVE TrimEnd(_)
TrimEnd(s) ==
  IF s # <<>> /\ s[Len(s)] = " " THEN TrimEnd(SubSeq(s, 1, Len(s) - 1)) ELSE s

\* String.prototype.trim
Trim(s) == TrimEnd(TrimStart(s))

\* Array.prototype.filter((msg) => msg._id !== id)
RECURSIVE FilterOutId(_, _)
FilterOutId(msgs, id) ==
  IF msgs = <<>> THEN <<>>
  ELSE IF Head(msgs).id # id THEN <<Head(msgs)>> \o FilterOutId(Tail(msgs), id)
       ELSE FilterOutId(Tail(msgs), id)

\* Array.prototype.find on _id: the first match, Null when there is none
FindById(list, id) ==
  IF \E i \in 1..Len(list) : list[i].id = id
    THEN list[CHOOSE i \in 1..Len(list) :
                /\ list[i].id = id
                /\ \A j \in 1..(i - 1) : list[j].id # id]
    ELSE Null

HasId(list, id) == \E i \in 1..Len(list) : list[i].id = id

\* ids of the messages of a conversation
MsgIds(conv) == { conv.msgs[i].id : i \in 1..Len(conv.msgs) }

\* ------------------------------------------------------------- state
VARIABLES
  conversations,         \* useState<MessageData[]>
  selectedConversation,  \* useState<MessageData | null>
  newMessage,            \* useState("")
  userData,              \* useState<UserData | null>
  loadingUser,           \* useState(true)
  isRefreshing,          \* useState(false)
  pollingIntervalRef,    \* useRef: TRUE while it holds an interval handle
  timers,                \* number of live window.setInterval timers
  authToken,             \* localforage "authToken": present or not
  server,                \* backend: the user's assistant and conversations
  userFetch,             \* fetchUserData: "idle", "get", "done"
  polls,                 \* refreshMessages invocations awaiting axios.get
  sends,                 \* handleSendMessage invocations in flight
  now,                   \* Date.now()
  toast,                 \* toast.error emitted by the last step ("" if none)
  req,                   \* HTTP request issued by the last step
  nPolls,                \* requests issued by refreshMessages so far
  nSends,                \* sends that passed the preconditions so far
  nCreate,               \* create-conversation requests issued so far
  nReplies,              \* messages the assistant has written so far
  authFailed,            \* a poll or send request has received 401/403
  log,                   \* console.error of the last step (<<>> if none)
  navigate,              \* navigate(...) called by the last step ("" if none)
  mounted                \* the component is mounted

vars == << conversations, selectedConversation, newMessage, userData,
           loadingUser, isRefreshing, pollingIntervalRef, timers, authToken,
           server, userFetch, polls, sends, now, toast, req, nPolls, nSends,
           nCreate, nReplies, authFailed, log, navigate, mounted >>

NoReq == [ep |-> "none", by |-> "none"]
NoLog == <<>>

\* ------------------------------------------------------------- backend
AssistantMsg(n) == [id |-> SrvId(n), role |-> "assistant", content |-> <<"r">>,
                    src |-> 0]

\* conversations the backend may hold before the page is opened
InitialMessages ==
  { <<>>,
    << [id |-> SrvId(1), msgs |-> << AssistantMsg(1) >>] >> }

RECURSIVE CountMsgs(_)
CountMsgs(list) ==
  IF list = <<>> THEN 0 ELSE Len(Head(list).msgs) + CountMsgs(Tail(list))

\* the backend's next message id and next conversation id
NextMsgId(list) == SrvId(CountMsgs(list) + 1)
NextConvId(list) == SrvId(Len(list) + 1)

\* POST /customer/createConv: a new, empty conversation
SrvCreate(list) == Append(list, [id |-> NextConvId(list), msgs |-> <<>>])

\* POST /customer/sendMessage {messageId, role, content}: the message is
\* stored under a server-assigned id (src remembers the optimistic entry it
\* came from; the backend does not see it)
SrvAppend(list, convId, role, content, src) ==
  [i \in 1..Len(list) |->
     IF list[i].id = convId
       THEN [list[i] EXCEPT !.msgs =
               Append(@, [id |-> NextMsgId(list), role |-> role,
                          content |-> content, src |-> src])]
       ELSE list[i]]

\* ------------------------------------------------------------- helpers of the page
getAssistantDetails(ud) ==
  IF ~ud.assistant THEN "Unassigned Assistant" ELSE "Assistant Name"

enhanceMessageData(message, ud) ==
  [id |-> message.id, msgs |-> message.msgs,
   assistantName |-> getAssistantDetails(ud)]

EnhanceAll(list, ud) == [i \in 1..Len(list) |-> enhanceMessageData(list[i], ud)]

\* createTemporaryConversation giving its conversation a server-like id
createTemporaryConversation_ServerId(ud, t) ==
  [id |-> SrvId(t), msgs |-> <<>>, assistantName |-> getAssistantDetails(ud)]

createTemporaryConversation(ud, t) ==
  [id |-> TempId(t), msgs |-> <<>>, assistantName |-> getAssistantDetails(ud)]

HasAssistant(ud) == ud # Null /\ ud.assistant

\* initializeConversations: the pair <<conversations, selectedConversation>>
initializeConversations(ud, t, convs, sel) ==
  IF ud.assistant /\ Len(ud.messages) = 0
    THEN LET tempConversation == createTemporaryConversation(ud, t)
         IN  << <<tempConversation>>, tempConversation >>
  ELSE IF Len(ud.messages) > 0
    THEN LET enhancedMessage == enhanceMessageData(ud.messages[1], ud)
         IN  << <<enhancedMessage>>, enhancedMessage >>
  ELSE << convs, sel >>

\* stopPolling dropping the handle without clearing the interval
stopPolling_LeavesTimer(ref, n) == << FALSE, n >>

\* stopPolling: <<pollingIntervalRef, timers>> afterwards
stopPolling(ref, n) == IF ref THEN << FALSE, n - 1 >> ELSE << ref, n >>

\* startPolling: clears the interval it holds, then sets a new one
startPolling(ref, n) ==
  LET cleared == stopPolling(ref, n) IN << TRUE, cleared[2] + 1 >>

\* PollingEffect starting the interval for any selected conversation
PollingEffect_IgnoresAssistant(ref, n, sel, ud) ==
  LET cleaned == stopPolling(ref, n)
  IN  IF sel # Null
        THEN startPolling(cleaned[1], cleaned[2])
        ELSE stopPolling(cleaned[1], cleaned[2])

\* the polling effect: cleanup of the previous run, then the body
PollingEffect(ref, n, sel, ud) ==
  LET cleaned == stopPolling(ref, n)
  IN  IF sel # Null /\ HasAssistant(ud)
        THEN startPolling(cleaned[1], cleaned[2])
        ELSE stopPolling(cleaned[1], cleaned[2])

\* ------------------------------------------------------------- Init
Init ==
  /\ conversations = <<>>
  /\ selectedConversation = Null
  /\ newMessage = <<>>
  /\ userData = Null
  /\ loadingUser = TRUE
  /\ isRefreshing = FALSE
  /\ pollingIntervalRef = FALSE
  /\ timers = 0
  /\ authToken \in BOOLEAN
  /\ server \in [assistant : BOOLEAN, messages : InitialMessages]
  /\ userFetch = "idle"
  /\ polls = {}
  /\ sends = {}
  /\ now = 1
  /\ toast = ""
  /\ req = NoReq
  /\ nPolls = 0
  /\ nSends = 0
  /\ nCreate = 0
  /\ nReplies = 0
  /\ authFailed = FALSE
  /\ log = NoLog
  /\ navigate = ""
  /\ mounted = TRUE


\* ------------------------------------------------------------- responses
\* a request that does not succeed is rejected with 401/403 or fails otherwise
Failures == {"auth", "error"}

\* ------------------------------------------------------------- fetchUserData
\* FetchUserData issuing its request without looking at the token
FetchUserData_IgnoresToken ==
  /\ userFetch = "idle"
  /\ toast' = ""
  /\ navigate' = ""
  /\ mounted' = mounted
  /\ req' = [ep |-> "GET userdata", by |-> "mount"]
  /\ userFetch' = "get"
  /\ loadingUser' = TRUE
  /\ log' = NoLog
  /\ UNCHANGED << conversations, selectedConversation, newMessage, userData,
                  isRefreshing, pollingIntervalRef, timers, authToken, server,
                  polls, sends, now, nPolls, nSends, nCreate,
                  authFailed, nReplies >>

\* the mount effect calls fetchUserData: the token is read and, when it is
\* there, GET /customer/userdata is issued
FetchUserData ==
  /\ userFetch = "idle"
  /\ IF ~authToken
       THEN /\ toast' = "Session expired or token missing. Please log in."
            /\ navigate' = "/"
            /\ mounted' = mounted
            /\ req' = NoReq
            /\ userFetch' = "done"
            /\ loadingUser' = FALSE
       ELSE /\ toast' = ""
            /\ navigate' = ""
            /\ mounted' = mounted
            /\ req' = [ep |-> "GET userdata", by |-> "mount"]
            /\ userFetch' = "get"
            /\ loadingUser' = TRUE
  /\ log' = NoLog
  /\ UNCHANGED << conversations, selectedConversation, newMessage, userData,
                  isRefreshing, pollingIntervalRef, timers, authToken, server,
                  polls, sends, now, nPolls, nSends, nCreate,
                  authFailed, nReplies >>

\* the response arrives: userData is set, then the effects of lines
\* 1004-1021 run (initializeConversations, the polling effect)
FetchUserDataOk ==
  /\ userFetch = "get"
  /\ LET ud == [assistant |-> server.assistant, messages |-> server.messages]
         init == initializeConversations(ud, now, conversations,
                                         selectedConversation)
         eff == PollingEffect(pollingIntervalRef, timers, init[2], ud)
     IN  /\ userData' = ud
         /\ conversations' = init[1]
         /\ selectedConversation' = init[2]
         /\ pollingIntervalRef' = eff[1]
         /\ timers' = eff[2]
         /\ now' = IF ud.assistant /\ Len(ud.messages) = 0 THEN now + 1 ELSE now
  /\ loadingUser' = FALSE
  /\ userFetch' = "done"
  /\ toast' = ""
  /\ log' = NoLog
  /\ navigate' = ""
  /\ mounted' = mounted
  /\ req' = NoReq
  /\ UNCHANGED << newMessage, isRefreshing, authToken, server, polls, sends,
                  nPolls, nSends, nCreate, authFailed, nReplies >>

\* the request fails: 401/403 removes the token, anything else only reports
FetchUserDataFail ==
  /\ userFetch = "get"
  /\ \E status \in Failures :
       /\ log' = << "User data fetch failed:", status >>
       /\ IF status = "auth"
            THEN /\ toast' = "Your session has expired. Please log in again."
                 /\ authToken' = FALSE
                 /\ navigate' = "/"
                 /\ mounted' = mounted
            ELSE /\ toast' = "Failed to load user data."
                 /\ authToken' = authToken
                 /\ navigate' = ""
                 /\ mounted' = mounted
  /\ loadingUser' = FALSE
  /\ userFetch' = "done"
  /\ req' = NoReq
  /\ UNCHANGED << conversations, selectedConversation, newMessage, userData,
                  isRefreshing, pollingIntervalRef, timers, server, polls,
                  sends, now, nPolls, nSends, nCreate, authFailed, nReplies >>

\* ------------------------------------------------------------- refreshMessages
\* refreshMessages up to its axios.get, run with the values of the render it
\* was created in (clRefreshing) and the current credential store; a state
\* setter called after the unmount does nothing
RefreshIssues(clRefreshing) ==
  HasAssistant(userData) /\ ~clRefreshing /\ authToken

\* requests in flight are told apart by a slot number
FreeSlot(calls) ==
  CHOOSE k \in 1..(Cardinality(calls) + 1) :
    /\ \A c \in calls : c.k # k
    /\ \A j \in 1..(k - 1) : \E c \in calls : c.k = j

Refresh(clSel, clRefreshing, conversationId, by) ==
  IF ~HasAssistant(userData) \/ clRefreshing
    THEN /\ req' = NoReq
         /\ UNCHANGED << isRefreshing, polls, nPolls >>
  ELSE IF ~authToken
    THEN /\ req' = NoReq
         /\ isRefreshing' = IF mounted THEN FALSE ELSE isRefreshing
         /\ UNCHANGED << polls, nPolls >>
  ELSE /\ req' = [ep |-> "GET messages", by |-> by]
       /\ isRefreshing' = IF mounted THEN TRUE ELSE isRefreshing
       /\ polls' = polls \cup { [k |-> FreeSlot(polls), sel |-> clSel,
                                 conversationId |-> conversationId] }
       /\ nPolls' = nPolls + 1

\* ApplyResponse selecting the first conversation when the selected one is
\* not in the response
ApplyResponse_SelectFirst(messages, clSel, conversationId, convs, sel, ud) ==
  IF Len(messages) > 0
    THEN LET enhancedMessages == EnhanceAll(messages, ud)
         IN  << enhancedMessages,
                IF clSel # Null
                  THEN LET currentConv == FindById(enhancedMessages, clSel.id)
                       IN  IF currentConv # Null THEN currentConv
                           ELSE enhancedMessages[1]
                ELSE IF conversationId # NoId
                  THEN LET newConv == FindById(enhancedMessages, conversationId)
                       IN  IF newConv # Null THEN newConv ELSE sel
                ELSE enhancedMessages[1] >>
    ELSE << convs, sel >>

\* lines 792-819: what a successful response does to
\* <<conversations, selectedConversation>>
ApplyResponse(messages, clSel, conversationId, convs, sel, ud) ==
  IF Len(messages) > 0
    THEN LET enhancedMessages == EnhanceAll(messages, ud)
         IN  << enhancedMessages,
                IF clSel # Null
                  THEN LET currentConv == FindById(enhancedMessages, clSel.id)
                       IN  IF currentConv # Null THEN currentConv ELSE sel
                ELSE IF conversationId # NoId
                  THEN LET newConv == FindById(enhancedMessages, conversationId)
                       IN  IF newConv # Null THEN newConv ELSE sel
                ELSE enhancedMessages[1] >>
    ELSE << convs, sel >>

\* the interval callback of startPolling
PollTick ==
  /\ pollingIntervalRef
  /\ HasAssistant(userData) /\ ~isRefreshing
  /\ RefreshIssues(isRefreshing) => nPolls < MaxPolls
  /\ Refresh(selectedConversation, isRefreshing, NoId, "tick")
  /\ toast' = ""
  /\ log' = NoLog
  /\ navigate' = ""
  /\ mounted' = mounted
  /\ UNCHANGED << conversations, selectedConversation, newMessage, userData,
                  loadingUser, pollingIntervalRef, timers, authToken, server,
                  userFetch, sends, now, nSends, nCreate,
                  authFailed, nReplies >>

\* handleManualRefresh
ManualRefresh ==
  /\ ~isRefreshing
  /\ RefreshIssues(isRefreshing) => nPolls < MaxPolls
  /\ Refresh(selectedConversation, isRefreshing, NoId, "manual")
  /\ toast' = ""
  /\ log' = NoLog
  /\ navigate' = ""
  /\ mounted' = mounted
  /\ UNCHANGED << conversations, selectedConversation, newMessage, userData,
                  loadingUser, pollingIntervalRef, timers, authToken, server,
                  userFetch, sends, now, nSends, nCreate,
                  authFailed, nReplies >>

\* the backend answers GET /customer/messages with its conversations and
\* the response reaches refreshMessages
PollResolve ==
  \E p \in polls :
    /\ LET res == ApplyResponse(server.messages, p.sel, p.conversationId,
                                conversations, selectedConversation, userData)
           eff == PollingEffect(pollingIntervalRef, timers, res[2], userData)
       IN  /\ conversations' = res[1]
           /\ selectedConversation' = res[2]
           /\ pollingIntervalRef' = eff[1]
           /\ timers' = eff[2]
    /\ isRefreshing' = FALSE
    /\ polls' = polls \ {p}
    /\ toast' = ""
    /\ log' = NoLog
    /\ navigate' = ""
    /\ mounted' = mounted
    /\ req' = NoReq
    /\ UNCHANGED << newMessage, userData, loadingUser, authToken, server,
                    userFetch, sends, now, nPolls, nSends, nCreate,
                    authFailed, nReplies >>

\* PollFail emptying the conversation list
PollFail_ClearsList ==
  \E p \in polls, status \in Failures :
    /\ conversations' = <<>>
    /\ isRefreshing' = FALSE
    /\ polls' = polls \ {p}
    /\ authFailed' = (authFailed \/ status = "auth")
    /\ toast' = ""
    /\ log' = << "Failed to refresh messages:", status >>
    /\ navigate' = ""
    /\ mounted' = mounted
    /\ req' = NoReq
    /\ UNCHANGED << selectedConversation, newMessage, userData,
                    loadingUser, pollingIntervalRef, timers, authToken, server,
                    userFetch, sends, now, nPolls, nSends, nCreate, nReplies >>

\* PollFail clearing the interval
PollFail_StopsLoop ==
  \E p \in polls, status \in Failures :
    /\ pollingIntervalRef' = FALSE
    /\ timers' = 0
    /\ isRefreshing' = FALSE
    /\ polls' = polls \ {p}
    /\ authFailed' = (authFailed \/ status = "auth")
    /\ toast' = ""
    /\ log' = << "Failed to refresh messages:", status >>
    /\ navigate' = ""
    /\ mounted' = mounted
    /\ req' = NoReq
    /\ UNCHANGED << conversations, selectedConversation, newMessage, userData,
                    loadingUser, authToken, server,
                    userFetch, sends, now, nPolls, nSends, nCreate, nReplies >>

\* PollFail without the finally
PollFail_KeepsFlag ==
  \E p \in polls, status \in Failures :
    /\ polls' = polls \ {p}
    /\ authFailed' = (authFailed \/ status = "auth")
    /\ toast' = ""
    /\ log' = << "Failed to refresh messages:", status >>
    /\ navigate' = ""
    /\ mounted' = mounted
    /\ req' = NoReq
    /\ UNCHANGED << conversations, selectedConversation, newMessage, userData,
                    loadingUser, isRefreshing, pollingIntervalRef, timers,
                    authToken, server, userFetch, sends, now, nPolls, nSends,
                    nCreate, nReplies >>

\* axios.get throws: the catch logs, the finally clears the flag
PollFail ==
  \E p \in polls, status \in Failures :
    /\ isRefreshing' = FALSE
    /\ polls' = polls \ {p}
    /\ authFailed' = (authFailed \/ status = "auth")
    /\ toast' = ""
    /\ log' = << "Failed to refresh messages:", status >>
    /\ navigate' = ""
    /\ mounted' = mounted
    /\ req' = NoReq
    /\ UNCHANGED << conversations, selectedConversation, newMessage, userData,
                    loadingUser, pollingIntervalRef, timers, authToken, server,
                    userFetch, sends, now, nPolls, nSends, nCreate, nReplies >>


\* ------------------------------------------------------------- handleSendMessage
\* ValidationToast without the toast of the first check
ValidationToast_FirstCheckSilent(text, sel, ud) ==
  IF Trim(text) = <<>> \/ sel = Null \/ ud = Null
    THEN ""
    ELSE IF ~ud.assistant
           THEN "No assistant assigned to send messages." ELSE ""

\* lines 1038-1049: the message of the toast the checks emit ("" for none)
ValidationToast(text, sel, ud) ==
  IF Trim(text) = <<>> \/ sel = Null \/ ud = Null
    THEN IF ~HasAssistant(ud)
           THEN "No assistant assigned to send messages." ELSE ""
    ELSE IF ~ud.assistant
           THEN "No assistant assigned to send messages." ELSE ""

\* Validates comparing the untrimmed text
Validates_NoTrim(text, sel, ud) ==
  /\ ~(text = <<>> \/ sel = Null \/ ud = Null)
  /\ ud.assistant

\* lines 1038-1049: the send goes on
Validates(text, sel, ud) ==
  /\ ~(Trim(text) = <<>> \/ sel = Null \/ ud = Null)
  /\ ud.assistant

\* handleSendMessage returns at one of its two checks
SendRejected ==
  /\ ~Validates(newMessage, selectedConversation, userData)
  /\ toast' = ValidationToast(newMessage, selectedConversation, userData)
  /\ log' = NoLog
  /\ navigate' = ""
  /\ mounted' = mounted
  /\ req' = NoReq
  /\ UNCHANGED << conversations, selectedConversation, newMessage, userData,
                  loadingUser, isRefreshing, pollingIntervalRef, timers,
                  authToken, server, userFetch, polls, sends, now, nPolls,
                  nSends, nCreate, authFailed, nReplies >>

\* lines 1054-1059
NewEntry(text, t) ==
  [id |-> <<"now", t>>, role |-> "user", content |-> Trim(text), src |-> t]

\* lines 1062-1065
UpdatedConversation(sel, newEntry) ==
  [sel EXCEPT !.msgs = Append(@, newEntry)]

\* lines 1068-1072 and 1145-1149: prev.map(conv => conv._id === c._id ? c : conv)
ReplaceById(prev, c) ==
  [i \in 1..Len(prev) |-> IF prev[i].id = c.id THEN c ELSE prev[i]]

\* SendSubmit taking the optimistic message back when the token is missing
SendSubmit_RevertsWithoutToken ==
  /\ Validates(newMessage, selectedConversation, userData)
  /\ nSends < MaxSends
  /\ LET newEntry == NewEntry(newMessage, now)
         updatedConversation == UpdatedConversation(selectedConversation,
                                                    newEntry)
         eff == PollingEffect(pollingIntervalRef, timers, updatedConversation,
                              userData)
         call == [sel |-> selectedConversation,
                  refreshing |-> isRefreshing, newEntry |-> newEntry,
                  conversationId |-> selectedConversation.id,
                  stage |-> IF StartsWithTemp(selectedConversation.id)
                              THEN "create" ELSE "send"]
     IN  /\ newMessage' = <<>>
         /\ selectedConversation' = IF authToken THEN updatedConversation
                                   ELSE selectedConversation
         /\ conversations' = IF authToken
                            THEN ReplaceById(conversations, updatedConversation)
                            ELSE conversations
         /\ pollingIntervalRef' = eff[1]
         /\ timers' = eff[2]
         /\ IF ~authToken
              THEN /\ toast' = "Session expired."
                   /\ req' = NoReq
                   /\ UNCHANGED << sends, nCreate >>
              ELSE /\ toast' = ""
                   /\ sends' = sends \cup {call}
                   /\ IF call.stage = "create"
                        THEN /\ req' = [ep |-> "POST createConv", by |-> "send"]
                             /\ nCreate' = nCreate + 1
                        ELSE /\ req' = [ep |-> "POST sendMessage", by |-> "send"]
                             /\ nCreate' = nCreate
  /\ now' = now + 1
  /\ nSends' = nSends + 1
  /\ log' = NoLog
  /\ navigate' = ""
  /\ mounted' = mounted
  /\ UNCHANGED << userData, loadingUser, isRefreshing, authToken, server,
                  userFetch, polls, nPolls, authFailed, nReplies >>

\* handleSendMessage from its checks to its first request: the optimistic
\* update, the token read, then createConv (placeholder) or sendMessage
SendSubmit ==
  /\ Validates(newMessage, selectedConversation, userData)
  /\ nSends < MaxSends
  /\ LET newEntry == NewEntry(newMessage, now)
         updatedConversation == UpdatedConversation(selectedConversation,
                                                    newEntry)
         eff == PollingEffect(pollingIntervalRef, timers, updatedConversation,
                              userData)
         call == [sel |-> selectedConversation,
                  refreshing |-> isRefreshing, newEntry |-> newEntry,
                  conversationId |-> selectedConversation.id,
                  stage |-> IF StartsWithTemp(selectedConversation.id)
                              THEN "create" ELSE "send"]
     IN  /\ newMessage' = <<>>
         /\ selectedConversation' = updatedConversation
         /\ conversations' = ReplaceById(conversations, updatedConversation)
         /\ pollingIntervalRef' = eff[1]
         /\ timers' = eff[2]
         /\ IF ~authToken
              THEN /\ toast' = "Session expired."
                   /\ req' = NoReq
                   /\ UNCHANGED << sends, nCreate >>
              ELSE /\ toast' = ""
                   /\ sends' = sends \cup {call}
                   /\ IF call.stage = "create"
                        THEN /\ req' = [ep |-> "POST createConv", by |-> "send"]
                             /\ nCreate' = nCreate + 1
                        ELSE /\ req' = [ep |-> "POST sendMessage", by |-> "send"]
                             /\ nCreate' = nCreate
  /\ now' = now + 1
  /\ nSends' = nSends + 1
  /\ log' = NoLog
  /\ navigate' = ""
  /\ mounted' = mounted
  /\ UNCHANGED << userData, loadingUser, isRefreshing, authToken, server,
                  userFetch, polls, nPolls, authFailed, nReplies >>

\* SendCreated posting the message under the placeholder's id
SendCreated_KeepsTempId ==
  \E c \in sends :
    /\ c.stage = "create"
    /\ server' = [server EXCEPT !.messages = SrvCreate(@)]
    /\ sends' = (sends \ {c}) \cup { [c EXCEPT !.stage = "send"] }
    /\ req' = [ep |-> "POST sendMessage", by |-> "send"]
    /\ toast' = ""
    /\ log' = NoLog
    /\ navigate' = ""
    /\ mounted' = mounted
    /\ UNCHANGED << conversations, selectedConversation, newMessage, userData,
                    loadingUser, isRefreshing, pollingIntervalRef, timers,
                    authToken, userFetch, polls, now, nPolls, nSends, nCreate,
                    authFailed, nReplies >>

\* createConv succeeds: the backend stores a conversation, the handler takes
\* its id and posts the message to it
SendCreated ==
  \E c \in sends :
    /\ c.stage = "create"
    /\ server' = [server EXCEPT !.messages = SrvCreate(@)]
    /\ sends' = (sends \ {c}) \cup
                  { [c EXCEPT !.stage = "send",
                              !.conversationId = NextConvId(server.messages)] }
    /\ req' = [ep |-> "POST sendMessage", by |-> "send"]
    /\ toast' = ""
    /\ log' = NoLog
    /\ navigate' = ""
    /\ mounted' = mounted
    /\ UNCHANGED << conversations, selectedConversation, newMessage, userData,
                    loadingUser, isRefreshing, pollingIntervalRef, timers,
                    authToken, userFetch, polls, now, nPolls, nSends, nCreate, authFailed, nReplies >>

\* the backend stores the posted message
SendServer ==
  \E c \in sends :
    /\ c.stage = "send"
    /\ server' = [server EXCEPT !.messages =
                    SrvAppend(@, c.conversationId, c.newEntry.role,
                              c.newEntry.content, c.newEntry.src)]
    /\ sends' = (sends \ {c}) \cup { [c EXCEPT !.stage = "acked"] }
    /\ req' = NoReq
    /\ toast' = ""
    /\ log' = NoLog
    /\ navigate' = ""
    /\ mounted' = mounted
    /\ UNCHANGED << conversations, selectedConversation, newMessage, userData,
                    loadingUser, isRefreshing, pollingIntervalRef, timers,
                    authToken, userFetch, polls, now, nPolls, nSends, nCreate, authFailed, nReplies >>

\* sendMessage resolves: a placeholder send refreshes at once (line 1112),
\* a send to an existing conversation sets a 500 ms timeout (line 1126)
SendResolved ==
  \E c \in sends :
    /\ c.stage = "acked"
    /\ IF StartsWithTemp(c.sel.id)
         THEN /\ RefreshIssues(c.refreshing) => nPolls < MaxPolls
              /\ Refresh(c.sel, c.refreshing, c.conversationId, "send")
              /\ sends' = sends \ {c}
         ELSE /\ sends' = (sends \ {c}) \cup { [c EXCEPT !.stage = "timeout"] }
              /\ req' = NoReq
              /\ UNCHANGED << isRefreshing, polls, nPolls >>
    /\ toast' = ""
    /\ log' = NoLog
    /\ navigate' = ""
    /\ mounted' = mounted
    /\ UNCHANGED << conversations, selectedConversation, newMessage, userData,
                    loadingUser, pollingIntervalRef, timers, authToken, server,
                    userFetch, now, nSends, nCreate, authFailed, nReplies >>

\* the 500 ms timeout fires (lines 1126-1128)
SendTimeout ==
  \E c \in sends :
    /\ c.stage = "timeout"
    /\ RefreshIssues(c.refreshing) => nPolls < MaxPolls
    /\ Refresh(c.sel, c.refreshing, c.conversationId, "send")
    /\ sends' = sends \ {c}
    /\ toast' = ""
    /\ log' = NoLog
    /\ navigate' = ""
    /\ mounted' = mounted
    /\ UNCHANGED << conversations, selectedConversation, newMessage, userData,
                    loadingUser, pollingIntervalRef, timers, authToken, server,
                    userFetch, now, nSends, nCreate, authFailed, nReplies >>

\* RevertSelected that leaves the message list as it is
RevertSelected_NoFilter(prev, newEntry) == prev

\* lines 1135-1144
RevertSelected(prev, newEntry) ==
  IF prev # Null
    THEN [prev EXCEPT !.msgs = FilterOutId(@, newEntry.id)]
    ELSE Null

\* createConv or sendMessage is rejected: the catch of lines 1130-1150
SendFail ==
  \E c \in sends, status \in Failures :
    /\ c.stage \in {"create", "send"}
    /\ LET sel == RevertSelected(selectedConversation, c.newEntry)
           eff == PollingEffect(pollingIntervalRef, timers, sel, userData)
       IN  /\ selectedConversation' = sel
           /\ pollingIntervalRef' = eff[1]
           /\ timers' = eff[2]
    /\ conversations' = ReplaceById(conversations, c.sel)
    /\ sends' = sends \ {c}
    /\ authFailed' = (authFailed \/ status = "auth")
    /\ toast' = "Failed to send message."
    /\ log' = << "Message send failed:", status >>
    /\ navigate' = ""
    /\ mounted' = mounted
    /\ req' = NoReq
    /\ UNCHANGED << newMessage, userData, loadingUser, isRefreshing, authToken,
                    server, userFetch, polls, now, nPolls, nSends, nCreate,
                    nReplies >>

\* handleSendMessage as a whole: it returns at a check or goes on
HandleSendMessage == SendRejected \/ SendSubmit

\* ------------------------------------------------------------- other events
\* onChange of the input (line 1405)
Type ==
  \E text \in Texts :
    /\ text # newMessage
    /\ newMessage' = text
    /\ toast' = ""
    /\ log' = NoLog
    /\ navigate' = ""
    /\ mounted' = mounted
    /\ req' = NoReq
    /\ UNCHANGED << conversations, selectedConversation, userData, loadingUser,
                    isRefreshing, pollingIntervalRef, timers, authToken,
                    server, userFetch, polls, sends, now, nPolls, nSends,
                    nCreate, authFailed, nReplies >>

\* a click on a conversation of the sidebar (lines 1169, 1208-1214)
SelectConversation ==
  \E i \in 1..Len(conversations) :
    /\ ~loadingUser /\ HasAssistant(userData)
    /\ conversations[i] # selectedConversation
    /\ LET eff == PollingEffect(pollingIntervalRef, timers, conversations[i],
                                userData)
       IN  /\ selectedConversation' = conversations[i]
           /\ pollingIntervalRef' = eff[1]
           /\ timers' = eff[2]
    /\ toast' = ""
    /\ log' = NoLog
    /\ navigate' = ""
    /\ mounted' = mounted
    /\ req' = NoReq
    /\ UNCHANGED << conversations, newMessage, userData, loadingUser,
                    isRefreshing, authToken, server, userFetch, polls, sends,
                    now, nPolls, nSends, nCreate, authFailed, nReplies >>

\* the assistant writes into one of the user's conversations
ServerReply ==
  \E i \in 1..Len(server.messages) :
    /\ nReplies < MaxReplies
    /\ server' = [server EXCEPT !.messages =
                    SrvAppend(@, server.messages[i].id, "assistant", <<"r">>, 0)]
    /\ nReplies' = nReplies + 1
    /\ toast' = ""
    /\ log' = NoLog
    /\ navigate' = ""
    /\ mounted' = mounted
    /\ req' = NoReq
    /\ UNCHANGED << conversations, selectedConversation, newMessage, userData,
                    loadingUser, isRefreshing, pollingIntervalRef, timers,
                    authToken, userFetch, polls, sends, now, nPolls, nSends,
                    nCreate, authFailed >>

\* the session layer clears the credential (logout elsewhere)
ClearToken ==
  /\ authToken
  /\ authToken' = FALSE
  /\ toast' = ""
  /\ log' = NoLog
  /\ navigate' = ""
  /\ mounted' = mounted
  /\ req' = NoReq
  /\ UNCHANGED << conversations, selectedConversation, newMessage, userData,
                  loadingUser, isRefreshing, pollingIntervalRef, timers,
                  server, userFetch, polls, sends, now, nPolls, nSends,
                  nCreate, authFailed, nReplies >>

\* ------------------------------------------------------------- specification
Next ==
  \/ FetchUserData
  \/ FetchUserDataOk
  \/ FetchUserDataFail
  \/ PollTick
  \/ ManualRefresh
  \/ PollResolve
  \/ PollFail
  \/ SendRejected
  \/ SendSubmit
  \/ SendCreated
  \/ SendServer
  \/ SendResolved
  \/ SendTimeout
  \/ SendFail
  \/ Type
  \/ SelectConversation
  \/ ServerReply
  \/ ClearToken

Spec == Init /\ [][Next]_vars

\* ------------------------------------------------------------- validation alone
\* every text of at most MaxLen characters
AllTexts == UNION { [1..n -> {" ", "h"}] : n \in 0..MaxLen }

\* what fetchUserData may have left in userData
LoadedUserData ==
  {Null} \cup [assistant : BOOLEAN, messages : InitialMessages]

\* the page after fetchUserData and its effects, with any text typed; a
\* failed load may still show its notice (lines 886-890)
InitValidate ==
  /\ \E ud \in LoadedUserData :
       LET init == IF ud = Null
                     THEN << <<>>, Null >>
                     ELSE initializeConversations(ud, 1, <<>>, Null)
           eff == PollingEffect(FALSE, 0, init[2], ud)
       IN  /\ userData = ud
           /\ conversations = init[1]
           /\ selectedConversation = init[2]
           /\ pollingIntervalRef = eff[1]
           /\ timers = eff[2]
           /\ server = IF ud = Null
                         THEN [assistant |-> FALSE, messages |-> <<>>]
                         ELSE [assistant |-> ud.assistant,
                               messages |-> ud.messages]
           /\ now = IF ud # Null /\ ud.assistant /\ Len(ud.messages) = 0
                      THEN 2 ELSE 1
  /\ newMessage \in AllTexts
  /\ authToken \in BOOLEAN
  /\ loadingUser = FALSE
  /\ isRefreshing = FALSE
  /\ userFetch = "done"
  /\ polls = {}
  /\ sends = {}
  /\ toast \in IF userData = Null
                THEN {"", "Failed to load user data."}
                ELSE {""}
  /\ req = NoReq
  /\ nPolls = 0
  /\ nSends = 0
  /\ nCreate = 0
  /\ nReplies = 0
  /\ authFailed = FALSE
  /\ log = NoLog
  /\ navigate = ""
  /\ mounted = TRUE

NextValidate ==
  \/ SendRejected
  \/ SendSubmit

SpecValidate == InitValidate /\ [][NextValidate]_vars


\* ------------------------------------------------------------- the load alone
\* a stored message: the j-th of the i-th conversation
StoredMsg(i, j, role) ==
  [id |-> SrvId(i * (MaxMsgs + 1) + j), role |-> role,
   content |-> IF role = "user" THEN <<"h">> ELSE <<"r">>, src |-> 0]

\* the message lists the i-th stored conversation may hold
StoredMsgLists(i) ==
  UNION { { [j \in 1..n |-> StoredMsg(i, j, roles[j])] :
              roles \in [1..n -> {"user", "assistant"}] } : n \in 0..MaxMsgs }

\* the conversation lists GET /customer/userdata may return
StoredLists ==
  UNION { { list \in [1..n -> [id : { SrvId(i) : i \in 1..n },
                               msgs : UNION { StoredMsgLists(i) : i \in 1..n }]] :
              \A i \in 1..n : /\ list[i].id = SrvId(i)
                              /\ list[i].msgs \in StoredMsgLists(i) } :
          n \in 0..MaxConvs }

\* the page at mount, over every stored list
InitLoad ==
  /\ conversations = <<>>
  /\ selectedConversation = Null
  /\ newMessage = <<>>
  /\ userData = Null
  /\ loadingUser = TRUE
  /\ isRefreshing = FALSE
  /\ pollingIntervalRef = FALSE
  /\ timers = 0
  /\ authToken \in BOOLEAN
  /\ server \in [assistant : BOOLEAN, messages : StoredLists]
  /\ userFetch = "idle"
  /\ polls = {}
  /\ sends = {}
  /\ now = 1
  /\ toast = ""
  /\ req = NoReq
  /\ nPolls = 0
  /\ nSends = 0
  /\ nCreate = 0
  /\ nReplies = 0
  /\ authFailed = FALSE
  /\ log = NoLog
  /\ navigate = ""
  /\ mounted = TRUE

NextLoad ==
  \/ FetchUserData
  \/ FetchUserDataOk
  \/ FetchUserDataFail

SpecLoad == InitLoad /\ [][NextLoad]_vars

\* ------------------------------------------------------------- teardown
\* the component is unmounted: the cleanups of the effects run (lines
\* 1018-1020, 1025-1027)
Unmount ==
  /\ mounted
  /\ mounted' = FALSE
  /\ LET cleaned == stopPolling(pollingIntervalRef, timers)
     IN  /\ pollingIntervalRef' = cleaned[1]
         /\ timers' = cleaned[2]
  /\ toast' = ""
  /\ log' = NoLog
  /\ navigate' = ""
  /\ req' = NoReq
  /\ UNCHANGED << conversations, selectedConversation, newMessage, userData,
                  loadingUser, isRefreshing, authToken, server, userFetch,
                  polls, sends, now, nPolls, nSends, nCreate, nReplies,
                  authFailed >>

\* a poll's request settles after the unmount: the state setters of
\* refreshMessages do nothing, a failure is still logged
PollSettlesUnmounted ==
  \E p \in polls, outcome \in {"ok"} \cup Failures :
    /\ ~mounted
    /\ polls' = polls \ {p}
    /\ authFailed' = (authFailed \/ outcome = "auth")
    /\ log' = IF outcome = "ok"
                THEN NoLog
                ELSE << "Failed to refresh messages:", outcome >>
    /\ toast' = ""
    /\ navigate' = ""
    /\ req' = NoReq
    /\ UNCHANGED << conversations, selectedConversation, newMessage, userData,
                    loadingUser, isRefreshing, pollingIntervalRef, timers,
                    authToken, server, userFetch, sends, now, nPolls, nSends,
                    nCreate, nReplies, mounted >>

\* createConv or sendMessage is rejected after the unmount: the catch
\* reports, its state setters do nothing
SendFailUnmounted ==
  \E c \in sends, status \in Failures :
    /\ ~mounted
    /\ c.stage \in {"create", "send"}
    /\ sends' = sends \ {c}
    /\ authFailed' = (authFailed \/ status = "auth")
    /\ toast' = "Failed to send message."
    /\ log' = << "Message send failed:", status >>
    /\ navigate' = ""
    /\ req' = NoReq
    /\ UNCHANGED << conversations, selectedConversation, newMessage, userData,
                    loadingUser, isRefreshing, pollingIntervalRef, timers,
                    authToken, server, userFetch, polls, now, nPolls, nSends,
                    nCreate, nReplies, mounted >>

\* the page from mount to after its unmount: what the user and the effects
\* do happens while it is mounted; requests in flight, the continuations of
\* handleSendMessage and timers go on afterwards
NextTeardown ==
  \/ mounted /\ FetchUserData
  \/ mounted /\ FetchUserDataOk
  \/ mounted /\ FetchUserDataFail
  \/ PollTick
  \/ mounted /\ ManualRefresh
  \/ mounted /\ PollResolve
  \/ mounted /\ PollFail
  \/ mounted /\ SendRejected
  \/ mounted /\ SendSubmit
  \/ SendCreated
  \/ SendServer
  \/ SendResolved
  \/ SendTimeout
  \/ mounted /\ SendFail
  \/ mounted /\ Type
  \/ mounted /\ SelectConversation
  \/ Unmount
  \/ PollSettlesUnmounted
  \/ SendFailUnmounted

SpecTeardown == Init /\ [][NextTeardown]_vars

\* ------------------------------------------------------------- completion of requests
\* the page while mounted, every GET /customer/messages being answered or
\* failing in the end
NextLive ==
  \/ FetchUserData
  \/ FetchUserDataOk
  \/ FetchUserDataFail
  \/ PollTick
  \/ ManualRefresh
  \/ PollResolve
  \/ PollFail
  \/ SendRejected
  \/ SendSubmit
  \/ SendCreated
  \/ SendServer
  \/ SendResolved
  \/ SendTimeout
  \/ SendFail
  \/ Type
  \/ SelectConversation
  \/ ClearToken

SpecLive == Init /\ [][NextLive]_vars /\ WF_vars(PollResolve \/ PollFail)

\* ------------------------------------------------------------- properties
HasMsg(conv, id) == conv # Null /\ id \in MsgIds(conv)

\* the request of a send has not resolved yet
Unresolved(c) == c.stage \in {"create", "send", "acked"}

\* the poll p gets its response in this step
ResolvedIn(p) == PollResolve /\ p \in polls /\ p \notin polls'

\* the send c is rejected in this step
FailedIn(c) ==
  c \in sends /\ c \notin sends' /\ toast' = "Failed to send message."

\* C1: at most one GET /customer/messages issued by refreshMessages is
\* outstanding at any time.
C1_OnePollOutstanding == Cardinality(polls) <= 1

\* C2: a poll that completes while a send is unresolved does not remove the
\* optimistic message of that send from the selected conversation.
C2_PollKeepsOptimistic ==
  [][PollResolve =>
       \A c \in sends :
         (Unresolved(c) /\ HasMsg(selectedConversation, c.newEntry.id))
           => HasMsg(selectedConversation', c.newEntry.id)]_vars

\* C3 as claimed: when a send fails (no other send was made, the
\* conversation it was sent from is still the selected one), the selected
\* conversation's message list equals its pre-send value and the temporary
\* message is in neither selected nor conversations, whatever polls
\* completed in between.
C3_RollbackRestoresPreSend ==
  [][\A c \in sends :
       (FailedIn(c) /\ nSends = 1 /\ selectedConversation.id = c.sel.id)
         => /\ selectedConversation'.msgs = c.sel.msgs
            /\ ~HasMsg(selectedConversation', c.newEntry.id)
            /\ \A i \in 1..Len(conversations') :
                 ~HasMsg(conversations'[i], c.newEntry.id)]_vars

\* C3 as amended: when a send fails, its temporary message is in neither
\* selected nor any entry of conversations, every entry of conversations
\* with the id of the conversation it was sent from is the pre-send
\* snapshot, and selected equals the pre-send value whenever it still held
\* exactly the optimistic value when the failure arrived.
C3_RollbackRemovesTemporary ==
  [][\A c \in sends :
       FailedIn(c)
         => /\ ~HasMsg(selectedConversation', c.newEntry.id)
            /\ \A i \in 1..Len(conversations') :
                 /\ ~HasMsg(conversations'[i], c.newEntry.id)
                 /\ conversations'[i].id = c.sel.id
                      => conversations'[i] = c.sel
            /\ selectedConversation = UpdatedConversation(c.sel, c.newEntry)
                 => selectedConversation' = c.sel]_vars

\* a send has just failed after a poll brought the assistant's reply
C3_Witness ==
  /\ toast = "Failed to send message."
  /\ nSends = 1
  /\ selectedConversation # Null
  /\ Len(selectedConversation.msgs) = 2

\* C4: the client never issues more than one create-conversation request.
C4_OneCreateRequest == nCreate <= 1

\* C5: once a poll or send request has received 401/403, the interval timer
\* issues no further poll request.
C5_AuthFailureHaltsPolling ==
  [][authFailed => ~(req'.ep = "GET messages" /\ req'.by = "tick")]_vars


\* the text is empty or consists of spaces
IsBlank(text) == \A i \in 1..Len(text) : text[i] = " "

\* a precondition of sendMessage is violated
PreconditionViolated ==
  \/ IsBlank(newMessage)
  \/ selectedConversation = Null
  \/ ~HasAssistant(userData)

\* C6: handleSendMessage called with empty or whitespace-only input, with no
\* conversation selected or with no assistant assigned issues no request
\* and leaves conversations, selected and the input text unchanged.
C6_RejectedSendDoesNothing ==
  [][(HandleSendMessage /\ PreconditionViolated)
       => /\ req' = NoReq
          /\ UNCHANGED << conversations, selectedConversation, newMessage,
                          polls, sends, nPolls, nSends, nCreate >>]_vars

\* a whitespace-only text was submitted without an assistant and is still
\* in the input
C6_Witness ==
  /\ toast = "No assistant assigned to send messages."
  /\ newMessage # <<>>
  /\ IsBlank(newMessage)
  /\ req = NoReq

\* C7 as claimed: every precondition violation of handleSendMessage emits
\* an error notice.
C7_EveryViolationNotified ==
  [][(HandleSendMessage /\ PreconditionViolated) => toast' # ""]_vars

\* C7 as amended: a precondition violation emits the notice "No assistant
\* assigned to send messages." exactly when no assistant is loaded; with an
\* assistant assigned, empty or whitespace-only input returns silently.
C7_ViolationNotifiedIffNoAssistant ==
  [][(HandleSendMessage /\ PreconditionViolated)
       => IF HasAssistant(userData)
            THEN toast' = ""
            ELSE toast' = "No assistant assigned to send messages."]_vars

\* a send was refused with the notice although a conversation is selected
C7_Witness ==
  /\ toast = "No assistant assigned to send messages."
  /\ selectedConversation # Null
  /\ ~HasAssistant(userData)


\* number of messages of the given role in a message list
CountRole(msgs, role) ==
  Cardinality({ i \in 1..Len(msgs) : msgs[i].role = role })

\* C8: after the first successful send from a placeholder, the poll that
\* reconciles it (the refresh the send issues, answered with the created
\* conversation holding the sent message) leaves selected with the
\* server-issued id, one conversation in conversations, and the sent user
\* message in it once.
C8_PlaceholderPromoted ==
  [][\A p \in polls :
       ( /\ ResolvedIn(p)
         /\ nSends = 1
         /\ p.conversationId # NoId
         /\ StartsWithTemp(p.sel.id)
         /\ Len(server.messages) = 1
         /\ CountRole(server.messages[1].msgs, "user") = 1 )
       => /\ ~StartsWithTemp(selectedConversation'.id)
          /\ selectedConversation'.id = p.conversationId
          /\ Len(conversations') = 1
          /\ CountRole(conversations'[1].msgs, "user") = 1]_vars

\* every conversation the page holds: selected and the entries of conversations
Held ==
  { conversations[i] : i \in 1..Len(conversations) }
    \cup (IF selectedConversation = Null THEN {} ELSE {selectedConversation})

\* the server's copy of the message sent as optimistic entry n has reached
\* the page
CopyDelivered(n) ==
  \E conv \in Held : \E i \in 1..Len(conv.msgs) :
    conv.msgs[i].id[1] = "srv" /\ conv.msgs[i].src = n

\* C9: once a poll has delivered the server's copy of a sent message, its
\* temporary-id entry is in neither selected nor conversations.
C9_TemporaryReplacedByCopy ==
  \A n \in 1..now :
    CopyDelivered(n) => \A conv \in Held : ~HasMsg(conv, <<"now", n>>)

\* C10: a successful poll response that contains a conversation with the id
\* of the currently selected one sets selected to the response's version.
C10_SelectedRefreshedFromResponse ==
  [][\A p \in polls :
       ( /\ ResolvedIn(p)
         /\ selectedConversation # Null
         /\ HasId(server.messages, selectedConversation.id) )
       => selectedConversation' =
            enhanceMessageData(FindById(server.messages,
                                        selectedConversation.id), userData)]_vars

\* C11: a successful poll whose response holds no conversation with the id
\* of the selected placeholder leaves selected as it is (id and message
\* list, optimistic messages included).
C11_PlaceholderKeptByPoll ==
  [][\A p \in polls :
       ( /\ ResolvedIn(p)
         /\ selectedConversation # Null
         /\ StartsWithTemp(selectedConversation.id)
         /\ ~HasId(server.messages, selectedConversation.id) )
       => selectedConversation' = selectedConversation]_vars

\* a poll has delivered the created conversation while the placeholder, with
\* the message sent from it, is still selected
C11_Witness ==
  /\ selectedConversation # Null
  /\ StartsWithTemp(selectedConversation.id)
  /\ nSends = 1
  /\ Len(selectedConversation.msgs) = 1
  /\ Len(conversations) = 1
  /\ ~StartsWithTemp(conversations[1].id)
  /\ polls = {}

\* C12: after every successful poll, conversations equals the returned list,
\* each entry decorated, the empty list included.
C12_ConversationsEqualResponse ==
  [][\A p \in polls :
       ResolvedIn(p) => conversations' = EnhanceAll(server.messages, userData)]_vars

\* a poll's request fails in this step
PollFails ==
  /\ \E p \in polls : p \notin polls'
  /\ log' \in { << "Failed to refresh messages:", status >> : status \in Failures }

\* refreshMessages is entered in this step and finds no token
RefreshWithoutToken ==
  /\ ~authToken
  /\ HasAssistant(userData)
  /\ PollTick \/ ManualRefresh \/ SendResolved \/ SendTimeout

\* C13: a poll that fails (request rejected or failed, or no token) leaves
\* conversations and selected as they are.
C13_FailedPollChangesNothing ==
  [][(PollFails \/ RefreshWithoutToken)
       => UNCHANGED << conversations, selectedConversation >>]_vars

\* a poll has just failed with a conversation and its messages on the page
C13_Witness ==
  /\ log = << "Failed to refresh messages:", "error" >>
  /\ Len(conversations) >= 1
  /\ selectedConversation # Null
  /\ Len(selectedConversation.msgs) >= 1

\* a poll's request fails in this step with something else than 401/403
PollFailsTransiently ==
  /\ \E p \in polls : p \notin polls'
  /\ log' = << "Failed to refresh messages:", "error" >>

\* C14: a failed poll (other than 401/403) does not stop the loop: with a
\* conversation selected and an assistant assigned, the interval is still
\* set after the failure and its callback is not held back by isRefreshing;
\* every firing of the callback that gets past line 841 and finds the token
\* issues GET /customer/messages.
C14_FailedPollKeepsLoop ==
  [][ /\ ( PollFailsTransiently
           /\ selectedConversation # Null /\ HasAssistant(userData) )
         => ( /\ pollingIntervalRef'
              /\ timers' = 1
              /\ ~isRefreshing'
              /\ selectedConversation' # Null /\ HasAssistant(userData') )
      /\ (PollTick /\ authToken)
         => req' = [ep |-> "GET messages", by |-> "tick"] ]_vars

\* a poll has just failed and the next tick can issue a request
C14_Witness ==
  /\ log = << "Failed to refresh messages:", "error" >>
  /\ selectedConversation # Null
  /\ pollingIntervalRef
  /\ ~isRefreshing
  /\ authToken
  /\ nPolls < MaxPolls

\* C15: the token is there when a handler issues its request, and a request
\* answered with 401/403 removes it from the store.
C15_TokenClearedOnAuthFailure ==
  [][ /\ (req' # NoReq /\ ~SendCreated) => authToken
      /\ (log' # NoLog /\ log'[2] = "auth") => ~authToken' ]_vars

\* last element of a non-empty list
Last(msgs) == msgs[Len(msgs)]

\* C16: when handleSendMessage passes its checks, the new message (temporary
\* id, role user) is the last message of selected and of the entry of
\* conversations with the id of the conversation the user had selected.
C16_OptimisticAppendMirrored ==
  [][SendSubmit =>
       LET newEntry == NewEntry(newMessage, now)
       IN  /\ newEntry.role = "user"
           /\ selectedConversation'.msgs # <<>>
           /\ Last(selectedConversation'.msgs) = newEntry
           /\ \E i \in 1..Len(conversations') :
                /\ conversations'[i].id = selectedConversation.id
                /\ conversations'[i].msgs # <<>>
                /\ Last(conversations'[i].msgs) = newEntry]_vars

\* the requests of handleSendMessage issued in this step
Issued == sends' \ sends

\* C17: a send from a placeholder issues create-conversation first and
\* send-message only when that has succeeded, with the id the backend has
\* just issued; no send-message request carries a temp- id; a send from a
\* conversation with a server id issues no create-conversation request and
\* carries that id.
C17_CreateThenSend ==
  [][ /\ \A c \in Issued :
           /\ c.stage = "create"
                => /\ StartsWithTemp(c.sel.id)
                   /\ req' = [ep |-> "POST createConv", by |-> "send"]
           /\ c.stage = "send"
                => /\ req' = [ep |-> "POST sendMessage", by |-> "send"]
                   /\ ~StartsWithTemp(c.conversationId)
                   /\ StartsWithTemp(c.sel.id)
                        => /\ ~HasId(server.messages, c.conversationId)
                           /\ Last(server'.messages).id = c.conversationId
                   /\ ~StartsWithTemp(c.sel.id)
                        => /\ c.conversationId = c.sel.id
                           /\ nCreate' = nCreate
      /\ req'.ep = "POST sendMessage"
           => \E c \in Issued : c.stage = "send"
      /\ req'.ep = "POST createConv"
           => \E c \in Issued : c.stage = "create" ]_vars

\* the message of a placeholder is on its way to the created conversation
C17_Witness ==
  /\ req = [ep |-> "POST sendMessage", by |-> "send"]
  /\ \E c \in sends :
       /\ c.stage = "send"
       /\ StartsWithTemp(c.sel.id)
       /\ HasId(server.messages, c.conversationId)

\* the send c has succeeded and calls refreshMessages in this step
RefreshAfterSend(c) ==
  /\ c \in sends /\ c \notin sends'
  /\ \/ c.stage = "acked" /\ StartsWithTemp(c.sel.id)
     \/ c.stage = "timeout"
  /\ toast' = ""

\* C18: every successful send issues a poll request of its own (the token
\* being in the store), also while another poll is outstanding.
C18_SendIssuesPoll ==
  [][\A c \in sends :
       (RefreshAfterSend(c) /\ authToken)
         => req' = [ep |-> "GET messages", by |-> "send"]]_vars

\* C19: fetchUserData without a stored token emits the notice and navigates
\* to the login page, issues no request and changes nothing else; from then
\* on no request is issued, conversations stays empty, selected stays null
\* and no interval is ever set.
C19_NoCredentialNoAction ==
  [][ /\ (FetchUserData /\ ~authToken)
           => /\ toast' = "Session expired or token missing. Please log in."
              /\ navigate' = "/"
              /\ mounted' = mounted
              /\ req' = NoReq
              /\ userFetch' = "done"
              /\ userData' = Null
      /\ (userFetch = "done" /\ userData = Null)
           => /\ req' = NoReq
              /\ userFetch' = "done"
              /\ userData' = Null
              /\ conversations' = <<>>
              /\ selectedConversation' = Null
              /\ ~pollingIntervalRef'
              /\ timers' = 0
              /\ polls' = {}
              /\ sends' = {} ]_vars

\* fetchUserData has just found no token
C19_Witness ==
  /\ toast = "Session expired or token missing. Please log in."
  /\ navigate = "/"
  /\ userFetch = "done"
  /\ conversations = <<>>
  /\ ~pollingIntervalRef

\* C20: when the load succeeds for a user with an assistant and N >= 1
\* conversations, conversations holds all N of them, decorated, and selected
\* is the first.
C20_AllConversationsLoaded ==
  [][(FetchUserDataOk /\ server.assistant /\ Len(server.messages) >= 1)
       => /\ conversations' = EnhanceAll(server.messages, userData')
          /\ selectedConversation' = conversations'[1]]_vars

\* C21: when the load succeeds for a user with an assistant and no
\* conversation, conversations holds one conversation, with a temp- id and
\* no message, it is the selected one, and no create-conversation request
\* is issued.
C21_PlaceholderAtLoad ==
  [][(FetchUserDataOk /\ server.assistant /\ Len(server.messages) = 0)
       => /\ Len(conversations') = 1
          /\ StartsWithTemp(conversations'[1].id)
          /\ conversations'[1].msgs = <<>>
          /\ selectedConversation' = conversations'[1]
          /\ req' = NoReq
          /\ nCreate' = 0
          /\ server' = server]_vars

\* the load has left a placeholder selected
C21_Witness ==
  /\ userFetch = "done"
  /\ HasAssistant(userData)
  /\ userData.messages = <<>>
  /\ selectedConversation # Null
  /\ StartsWithTemp(selectedConversation.id)

\* a conversation with a temp- id is on the page
PlaceholderHeld == \E conv \in Held : StartsWithTemp(conv.id)

\* C22: while the loaded user has no assistant, no poll request is issued,
\* no interval is set and no placeholder is created, whatever the stored
\* conversations.
C22_NoAssistantNoPolling ==
  [][(userData' # Null /\ ~userData'.assistant)
       => /\ req'.ep # "GET messages"
          /\ ~pollingIntervalRef'
          /\ timers' = 0
          /\ polls' = {}
          /\ nPolls' = 0
          /\ ~PlaceholderHeld']_vars

\* a user without assistant is loaded with a stored conversation selected
C22_Witness ==
  /\ userData # Null
  /\ ~userData.assistant
  /\ selectedConversation # Null
  /\ Len(conversations) = 1
  /\ ~pollingIntervalRef

\* C23: for a user with an assistant and no stored message, no interval is
\* set and no poll request is issued before the first send.
C23_NoPollingBeforeFirstSend ==
  (HasAssistant(userData) /\ userData.messages = <<>> /\ nSends = 0)
    => (~pollingIntervalRef /\ timers = 0 /\ nPolls = 0)

\* C24: after the unmount no interval is left and no poll request is issued,
\* the refresh that follows a successful send included.
C24_NoRequestAfterUnmount ==
  [][~mounted'
       => /\ timers' = 0
          /\ ~pollingIntervalRef'
          /\ req'.ep # "GET messages"]_vars

\* C26: at most one interval exists, it is the one whose handle
\* pollingIntervalRef holds, and none is left after the unmount.
C26_OneTimerHeld ==
  /\ timers <= 1
  /\ pollingIntervalRef <=> timers = 1
  /\ ~mounted => timers = 0

\* the page is unmounted after polling and sending
C26_Witness ==
  /\ ~mounted
  /\ nPolls >= 1
  /\ nSends >= 1
  /\ selectedConversation # Null
  /\ timers = 0

\* C27: isRefreshing, once true, becomes false again.
C27_FlagClears == isRefreshing ~> ~isRefreshing

\* a failed poll has cleared the flag
C27_Witness ==
  /\ log \in { << "Failed to refresh messages:", status >> : status \in Failures }
  /\ ~isRefreshing
  /\ polls = {}
  /\ nPolls >= 1

\* ids of the messages of a conversation that the server has assigned
SrvMsgIds(conv) ==
  { conv.msgs[i].id : i \in { j \in 1..Len(conv.msgs) : conv.msgs[j].id[1] = "srv" } }

\* C25: no local action (optimistic append, rollback after a failed send,
\* selection of a conversation) removes a message with a server-assigned id
\* from a conversation of conversations or from the selected conversation.
C25_ServerMessagesKept ==
  [][(SendSubmit \/ SendFail \/ SelectConversation)
       => /\ \A i \in 1..Len(conversations) :
               /\ i <= Len(conversations')
               /\ conversations'[i].id = conversations[i].id
               /\ SrvMsgIds(conversations[i]) \subseteq SrvMsgIds(conversations'[i])
          /\ ( /\ selectedConversation # Null
               /\ selectedConversation' # Null
               /\ selectedConversation'.id = selectedConversation.id )
             => SrvMsgIds(selectedConversation)
                  \subseteq SrvMsgIds(selectedConversation')]_vars

\* C28: whenever a conversation is selected, conversations holds an entry
\* with its id.
C28_SelectedIsListed ==
  selectedConversation # Null => HasId(conversations, selectedConversation.id)

\* C29: a send that passes the checks and finds no token issues no request,
\* emits one notice and keeps the optimistic message in selected and in the
\* entry of conversations with the selected id.
C29_NoTokenKeepsOptimistic ==
  [][(SendSubmit /\ ~authToken)
       => LET newEntry == NewEntry(newMessage, now)
          IN  /\ req' = NoReq
              /\ toast' = "Session expired."
              /\ sends' = sends
              /\ nCreate' = nCreate
              /\ server' = server
              /\ selectedConversation'.msgs
                   = Append(selectedConversation.msgs, newEntry)
              /\ \A i \in 1..Len(conversations') :
                   conversations'[i].id = selectedConversation.id
                     => conversations'[i] = selectedConversation']_vars

\* a message was submitted without a token and is shown as sent
C29_Witness ==
  /\ toast = "Session expired."
  /\ sends = {}
  /\ nSends = 1
  /\ selectedConversation # Null
  /\ selectedConversation.msgs # <<>>
  /\ Last(selectedConversation.msgs).id[1] = "now"
  /\ HasId(conversations, selectedConversation.id)

\* C30: with no send in flight and no poll completed since the last send
\* resolved (here: no poll issued at all), the selected conversation's
\* messages are those of the entry of conversations with its id.
C30_SelectedEqualsEntry ==
  (sends = {} /\ nPolls = 0 /\ selectedConversation # Null)
    => \A i \in 1..Len(conversations) :
         conversations[i].id = selectedConversation.id
           => conversations[i].msgs = selectedConversation.msgs


====
